---------------------------- MODULE Spec2Model ----------------------------
(***************************************************************************)
(* A model of the notebooks of nmasamba/computer_vision:                   *)
(*   10_knowledge_distillation.ipynb  ImageDistilTrainer (SpecDistil)      *)
(*   03_video_classification.ipynb    label maps (video and image          *)
(*                                    classification), collate_fn          *)
(*   02_image_segmentation.ipynb      label maps                           *)
(*   all notebooks                    cells run top to bottom              *)
(*                                                                         *)
(* Real numbers.  The losses are real numbers built from exp and log.  The *)
(* model measures every logit and every loss in units of ln 2 and draws    *)
(* the logits from the vectors whose softmax is dyadic (every probability  *)
(* a power of two).  On these inputs exp, log, softmax, log-softmax and    *)
(* the Kullback-Leibler divergence are exact rational numbers, which the   *)
(* model computes as fractions [num, den].                                 *)
(***************************************************************************)
EXTENDS Integers, Sequences, FiniteSets, TLC

VARIABLES
    \* ---- 10_knowledge_distillation.ipynb: ImageDistilTrainer -----------
    pc,                   \* "new" | "constructed" | "init_failed"
    teacher,              \* self.teacher: [training, params, has_grad]
    student,              \* self.student: [training, params, has_grad]
    trainer_model,        \* the model Trainer.__init__ was given: self.model
    temperature,          \* self.temperature
    lambda_param,         \* self.lambda_param, a fraction
    calls,                \* "none" | "train" | "eval": the last caller of compute_loss
    steps,                \* the number of calls of compute_loss so far
    teacher_logits,       \* teacher_output.logits of the last call
    student_logits,       \* student_output.logits of the last call
    teacher_requires_grad,\* teacher_output.logits.requires_grad
    student_requires_grad,\* student_output.logits.requires_grad
    soft_teacher,         \* locals of compute_loss, as left by the last call
    soft_student,
    distillation_loss,
    student_target_loss,
    loss,
    \* ---- 03_video_classification.ipynb: the label maps ------------------
    all_video_file_paths, \* list of str(path)
    class_labels,
    video_label2id,       \* label2id
    video_id2label,       \* id2label
    \* ---- 03_video_classification.ipynb, image classification part ------
    food_labels,          \* labels
    food_label2id,        \* label2id
    food_id2label,        \* id2label
    \* ---- 02_image_segmentation.ipynb: the label maps -------------------
    label_file,           \* json.load(open(...)) of ade20k-id2label.json
    seg_id2label,         \* id2label
    seg_label2id,         \* label2id
    num_labels,
    \* ---- 03_video_classification.ipynb: collate_fn ----------------------
    examples,             \* the argument of collate_fn
    batch,                \* what collate_fn returned
    \* ---- a notebook run cell by cell from top to bottom -----------------
    notebook,             \* the notebook that runs
    cell,                 \* the next cell to run, counted from 1
    bound,                \* the names bound in the kernel
    ints,                 \* the values of the int names max_steps is computed from
    raised,               \* the exception that ended the last cell, or "none"
    highest,              \* the latest phase of the tutorial order a statement ran in
    out_of_order,         \* a statement ran in a phase earlier than one already run
    used_unloaded,        \* inference or training on a model no earlier statement bound
    used_untuned,         \* the fine-tuned model used before a train() call returned
    trained,              \* a train() call returned
    max_steps,            \* max_steps of the TrainingArguments, -1 by default
    optimizer_steps,      \* optimizer steps of the last train(), -1 when set by epochs
    num_videos,           \* train_dataset.num_videos of the data on disk
    checkpoint_saved,     \* the output directory holds a model of an earlier session
    kwargs_accepted,      \* the installed Trainer takes the keyword training_args
    \* ---- 02_image_segmentation.ipynb: labels, loss and compute_metrics --
    annotation,           \* the pixels of example_batch["annotation"], uint8
    pred_labels,          \* the class the model predicts for each pixel
    inputs_labels,        \* inputs["labels"] of the image processor
    seg_loss,             \* the pixels the loss averages over: their number and sum
    metrics,              \* the areas metric.compute counts for each class
    \* ---- 02_image_segmentation.ipynb: train_transforms, val_transforms --
    example_batch,        \* the argument: its "image" and "annotation" lists
    processor_images,     \* images, as given to image_processor
    processor_labels,     \* labels, as given to image_processor
    pixel,                \* a pixel of the decoded video, 0..255
    channel,              \* the colour channel of the pixel, 1..3
    normalized,           \* the float32 value the transform has made of it
    frame_unnormalized    \* the value unnormalize_img returns for it

distilVars == <<teacher, student, trainer_model, temperature, lambda_param,
                calls, steps, teacher_logits, student_logits,
                teacher_requires_grad, student_requires_grad, soft_teacher,
                soft_student, distillation_loss, student_target_loss, loss>>

videoLabelVars == <<all_video_file_paths, class_labels, video_label2id, video_id2label>>
foodLabelVars == <<food_labels, food_label2id, food_id2label>>
segLabelVars == <<label_file, seg_id2label, seg_label2id, num_labels>>

collateVars == <<examples, batch>>

notebookVars == <<notebook, cell, bound, ints, raised, highest, out_of_order, used_unloaded,
                  used_untuned, trained, max_steps, optimizer_steps, num_videos,
                  checkpoint_saved, kwargs_accepted>>

reduceLabelVars == <<annotation, pred_labels, inputs_labels, seg_loss, metrics>>

transformVars == <<example_batch, processor_images, processor_labels>>

unnormalizeVars == <<pixel, channel, normalized, frame_unnormalized>>

vars == <<pc, distilVars, videoLabelVars, foodLabelVars, segLabelVars, collateVars, notebookVars, reduceLabelVars, transformVars, unnormalizeVars>>

-----------------------------------------------------------------------------
(* Bounds of the model *)

\* Softened logits (logits / temperature) range over 0..MaxLogit, in units of ln 2.
MaxLogit == 1
\* temperature ranges over 1..MaxTemp.
MaxTemp == 2
\* lambda_param ranges over k / LambdaDen, k in 0..LambdaDen.
LambdaDen == 2
\* student_output.loss ranges over 0..MaxLoss, in units of ln 2.
MaxLoss == 1
\* A run calls compute_loss at most MaxSteps times.
MaxSteps == 3

\* num_labels of the beans dataset; the class axis (dim=-1) of the logits.
NumLabels == 3
Classes == 1..NumLabels
\* Sizes of the batches compute_loss is called with.
BatchSizes == {1, 2}

-----------------------------------------------------------------------------
(* Exact fractions *)

RECURSIVE GCD(_, _)
GCD(a, b) == IF b = 0 THEN a ELSE GCD(b, a % b)

Abs(n) == IF n < 0 THEN -n ELSE n

\* The fraction n/d (d > 0) in lowest terms.
R(n, d) ==
    LET g == GCD(Abs(n), d)
    IN  [num |-> n \div g, den |-> d \div g]

RInt(n) == R(n, 1)
RAdd(x, y) == R(x.num * y.den + y.num * x.den, x.den * y.den)
RSub(x, y) == R(x.num * y.den - y.num * x.den, x.den * y.den)
RMul(x, y) == R(x.num * y.num, x.den * y.den)
RLe(x, y) == x.num * y.den <= y.num * x.den
RMin(x, y) == IF RLe(x, y) THEN x ELSE y
RMax(x, y) == IF RLe(x, y) THEN y ELSE x

\* The sum of f over the finite set S.
RECURSIVE RSum(_, _)
RSum(f, S) ==
    IF S = {} THEN RInt(0)
    ELSE LET i == CHOOSE j \in S : TRUE
         IN  RAdd(f[i], RSum(f, S \ {i}))

RECURSIVE ISum(_, _)
ISum(f, S) ==
    IF S = {} THEN 0
    ELSE LET i == CHOOSE j \in S : TRUE
         IN  f[i] + ISum(f, S \ {i})

-----------------------------------------------------------------------------
(* exp and log in units of ln 2 *)

\* exp(x ln 2)
Exp2(x) == 2 ^ x

MaxExp == MaxLogit * MaxTemp + NumLabels

IsPow2(n) == \E k \in 0..MaxExp : 2 ^ k = n

\* log(n) / ln 2 of a power of two.
Log2(n) == CHOOSE k \in 0..MaxExp : 2 ^ k = n

\* log(p) / ln 2 of a dyadic fraction p.
RLog2(p) == RInt(Log2(p.num) - Log2(p.den))

\* sum_j exp(x[j])
SumExp(x) == ISum([j \in Classes |-> Exp2(x[j])], Classes)

-----------------------------------------------------------------------------
(* torch.nn.functional *)

\* F.softmax(x, dim=-1)
Softmax(x) == [i \in Classes |-> R(Exp2(x[i]), SumExp(x))]

\* F.log_softmax(x, dim=-1)
LogSoftmax(x) == [i \in Classes |-> RInt(x[i] - Log2(SumExp(x)))]

\* logits / temperature, elementwise, for a batch of logits
DivideLogits(logits, T) ==
    [b \in DOMAIN logits |-> [i \in Classes |-> logits[b][i] \div T]]

\* nn.KLDivLoss(reduction="batchmean")(input, target):
\* sum(target * (log(target) - input)) / input.size(0)
KLDivLoss(input, target) ==
    LET B == Len(input)
        pointwise(b) ==
            [i \in Classes |->
                RMul(target[b][i], RSub(RLog2(target[b][i]), input[b][i]))]
        perExample == [b \in 1..B |-> RSum(pointwise(b), Classes)]
    IN  RMul(RSum(perExample, 1..B), R(1, B))

-----------------------------------------------------------------------------
(* ImageDistilTrainer.compute_loss, statement by statement *)

\* soft_teacher = F.softmax(teacher_output.logits / self.temperature, dim=-1)
SoftTeacher(logits, T) ==
    [b \in DOMAIN logits |-> Softmax(DivideLogits(logits, T)[b])]

\* Mutant of SoftStudent: the student's probabilities, not their logarithms.
SoftStudentNoLog(logits, T) ==
    [b \in DOMAIN logits |-> Softmax(DivideLogits(logits, T)[b])]

\* soft_student = F.log_softmax(student_output.logits / self.temperature, dim=-1)
SoftStudent(logits, T) ==
    [b \in DOMAIN logits |-> LogSoftmax(DivideLogits(logits, T)[b])]

\* Mutant of DistillationLoss: scaled by the temperature, not by its square.
DistillationLossLinear(softStudent, softTeacher, T) ==
    RMul(KLDivLoss(softStudent, softTeacher), RInt(T))

\* distillation_loss = self.loss_function(soft_student, soft_teacher) * (self.temperature ** 2)
DistillationLoss(softStudent, softTeacher, T) ==
    RMul(KLDivLoss(softStudent, softTeacher), RInt(T ^ 2))

\* Mutant of BlendLoss: the student's loss is not weighted by 1 - lambda_param.
BlendLossUnweighted(lam, studentLoss, distilLoss) ==
    RAdd(studentLoss, RMul(lam, distilLoss))

\* loss = (1. - self.lambda_param) * student_target_loss + self.lambda_param * distillation_loss
BlendLoss(lam, studentLoss, distilLoss) ==
    RAdd(RMul(RSub(RInt(1), lam), studentLoss), RMul(lam, distilLoss))

\* The gradient mode inside "with torch.no_grad():".
NoGrad(mode) == FALSE

\* requires_grad of a forward pass's output: the mode it ran in, and whether the
\* parameters require gradient (they do, for both models).
ForwardRequiresGrad(mode) == mode

\* Mutant of TeacherEval: the teacher is left in the mode it came in.
TeacherEvalSkipped(m) == m

\* self.teacher.eval()
TeacherEval(m) == [m EXCEPT !.training = FALSE]

\* super().__init__(model=student_model, *args, **kwargs): the model the Trainer
\* trains and evaluates.
TrainerModel == "student"

-----------------------------------------------------------------------------
(* Python values *)

\* An int, and a str as the sequence of its characters' code points.
PyInt(i) == [type |-> "int", value |-> i]
PyStr(chars) == [type |-> "str", value |-> chars]

\* str(i) of an int i >= 0: its decimal digits
RECURSIVE Digits(_)
Digits(i) == IF i < 10 THEN <<48 + i>> ELSE Digits(i \div 10) \o <<48 + (i % 10)>>
Str(x) == PyStr(Digits(x.value))

\* int(s) of a str of decimal digits
RECURSIVE Number(_)
Number(chars) ==
    IF Len(chars) = 0 THEN 0
    ELSE 10 * Number(SubSeq(chars, 1, Len(chars) - 1)) + (chars[Len(chars)] - 48)
IntOf(x) == PyInt(Number(x.value))

\* a < b on str: by code point, a proper prefix first
RECURSIVE CharsLess(_, _)
CharsLess(a, b) ==
    IF Len(b) = 0 THEN FALSE
    ELSE IF Len(a) = 0 THEN TRUE
    ELSE IF Head(a) # Head(b) THEN Head(a) < Head(b)
    ELSE CharsLess(Tail(a), Tail(b))
StrLess(x, y) == CharsLess(x.value, y.value)

\* sep.join(parts)
RECURSIVE JoinChars(_, _)
JoinChars(parts, sep) ==
    IF Len(parts) = 0 THEN <<>>
    ELSE IF Len(parts) = 1 THEN parts[1].value
    ELSE parts[1].value \o <<sep>> \o JoinChars(Tail(parts), sep)
Join(parts, sep) == PyStr(JoinChars(parts, sep))

\* s.split(sep): the list of the pieces of s between the separators
RECURSIVE SplitChars(_, _, _)
SplitChars(chars, sep, piece) ==
    IF Len(chars) = 0 THEN <<PyStr(piece)>>
    ELSE IF Head(chars) = sep THEN <<PyStr(piece)>> \o SplitChars(Tail(chars), sep, <<>>)
    ELSE SplitChars(Tail(chars), sep, Append(piece, Head(chars)))
Split(s, sep) == SplitChars(s.value, sep, <<>>)

\* list[i], counted from 0
Item(list, i) == list[i + 1]

\* The elements of a list, as a set
Elements(list) == {list[k] : k \in DOMAIN list}

\* sorted(S) of a set of str
RECURSIVE Sorted(_)
Sorted(S) ==
    IF S = {} THEN <<>>
    ELSE LET least == CHOOSE x \in S : \A y \in S \ {x} : StrLess(x, y)
         IN  <<least>> \o Sorted(S \ {least})

\* enumerate(list): the pairs (i, list[i])
Enumerate(list) == [k \in DOMAIN list |-> <<PyInt(k - 1), list[k]>>]

\* A dict is the list of its (key, value) items in insertion order.
EmptyDict == <<>>
Keys(d) == {d[k][1] : k \in DOMAIN d}
Values(d) == {d[k][2] : k \in DOMAIN d}
Get(d, key) == d[CHOOSE k \in DOMAIN d : d[k][1] = key][2]

\* d[key] = value
DictSet(d, key, value) ==
    IF key \in Keys(d)
    THEN [k \in DOMAIN d |-> IF d[k][1] = key THEN <<key, value>> ELSE d[k]]
    ELSE Append(d, <<key, value>>)

\* {key: value for (key, value) in items}
RECURSIVE DictOf(_)
DictOf(items) ==
    IF Len(items) = 0 THEN EmptyDict
    ELSE LET last == items[Len(items)]
         IN  DictSet(DictOf(SubSeq(items, 1, Len(items) - 1)), last[1], last[2])

-----------------------------------------------------------------------------
(* 03_video_classification.ipynb: class_labels, label2id, id2label *)

\* A video may be counted at most MaxVideos times over the three splits.
MaxVideos == 3

Slash == 47

\* "UCF101_subset"
DatasetRootPath == PyStr(<<85, 67, 70, 49, 48, 49, 95, 115, 117, 98, 115, 101, 116>>)
\* "train", "val", "test", in the order the globs are concatenated
SplitDirs == <<PyStr(<<116, 114, 97, 105, 110>>), PyStr(<<118, 97, 108>>),
               PyStr(<<116, 101, 115, 116>>)>>
\* Class directories: "A", "AB", "B", "a"
ClassDirs == {PyStr(<<65>>), PyStr(<<65, 66>>), PyStr(<<66>>), PyStr(<<97>>)}
\* "v.avi"
VideoFile == PyStr(<<118, 46, 97, 118, 105>>)

\* str(path) of dataset_root_path / split / class / file
VideoPath(split, class) == Join(<<DatasetRootPath, SplitDirs[split], class, VideoFile>>, Slash)

\* The lists glob("train/*/*.avi") + glob("val/*/*.avi") + glob("test/*/*.avi")
\* can be: distinct files, those of a split in any order, the splits in order.
VideoFileLists ==
    LET Files == (DOMAIN SplitDirs) \X ClassDirs
        Lists == UNION {[1..n -> Files] : n \in 0..MaxVideos}
    IN  {[k \in DOMAIN l |-> VideoPath(l[k][1], l[k][2])] :
            l \in {m \in Lists :
                     \A j, k \in DOMAIN m :
                        j < k => (m[j] # m[k] /\ m[j][1] <= m[k][1])}}

\* The class directory of every path, in the order of the list: neither the set
\* nor sorted()
ClassLabelsAsListed(paths) == [k \in DOMAIN paths |-> Item(Split(paths[k], Slash), 2)]

\* class_labels = sorted({str(path).split("/")[2] for path in all_video_file_paths})
ClassLabels(paths) == Sorted({Item(Split(path, Slash), 2) : path \in Elements(paths)})

\* label2id = {label: i for i, label in enumerate(class_labels)}
Label2Id(labels) ==
    LET e == Enumerate(labels) IN DictOf([k \in DOMAIN e |-> <<e[k][2], e[k][1]>>])

\* id2label = {i: label for label, i in label2id.items()}
Id2Label(label2id) == DictOf([k \in DOMAIN label2id |-> <<label2id[k][2], label2id[k][1]>>])

VideoLabelsIdle ==
    /\ all_video_file_paths = <<>>
    /\ class_labels = <<>>
    /\ video_label2id = EmptyDict
    /\ video_id2label = EmptyDict

-----------------------------------------------------------------------------
(* 03_video_classification.ipynb, image classification: labels, label2id, id2label *)

\* food["train"].features["label"].names has at most MaxFoodLabels names.
MaxFoodLabels == 11

\* The k-th class name: "a", "b", ...
FoodName(k) == PyStr(<<96 + k>>)

\* The members of a set of numbers, in ascending order
RECURSIVE Ascending(_)
Ascending(S) ==
    IF S = {} THEN <<>>
    ELSE LET least == CHOOSE x \in S : \A y \in S : x <= y
         IN  <<least>> \o Ascending(S \ {least})

\* food["train"].features["label"].names: distinct names (a ClassLabel
\* feature rejects duplicate names), listed in alphabetical order.
FoodLabelLists ==
    {[k \in DOMAIN Ascending(S) |-> FoodName(Ascending(S)[k])] : S \in SUBSET (1..MaxFoodLabels)}

\* The loop storing the positions themselves, as ints
RECURSIVE FoodLoopOfInts(_, _, _)
FoodLoopOfInts(items, label2id, id2label) ==
    IF Len(items) = 0 THEN [label2id |-> label2id, id2label |-> id2label]
    ELSE LET i == items[1][1]
             label == items[1][2]
         IN  FoodLoopOfInts(Tail(items), DictSet(label2id, label, i),
                            DictSet(id2label, i, label))

\* for i, label in enumerate(labels):
\*     label2id[label] = str(i)
\*     id2label[str(i)] = label
RECURSIVE FoodLoop(_, _, _)
FoodLoop(items, label2id, id2label) ==
    IF Len(items) = 0 THEN [label2id |-> label2id, id2label |-> id2label]
    ELSE LET i == items[1][1]
             label == items[1][2]
         IN  FoodLoop(Tail(items), DictSet(label2id, label, Str(i)),
                      DictSet(id2label, Str(i), label))

FoodLabelsIdle ==
    /\ food_labels = <<>>
    /\ food_label2id = EmptyDict
    /\ food_id2label = EmptyDict

-----------------------------------------------------------------------------
(* 02_image_segmentation.ipynb: id2label, label2id, num_labels *)

\* The label file names the ids 0..MaxSegId, or some of them.
MaxSegId == 10

\* The k-th class name of the label file: "A", "B", ...
SegName(k) == PyStr(<<65 + k>>)

\* The ways the file can name its classes: each class has a name of its own.
NameShifts == {0, 1}

\* json.load of the label file: a dict from the decimal string of an id to the
\* name of the class, each class named once.
LabelFiles ==
    {[k \in DOMAIN Ascending(S) |->
          <<Str(PyInt(Ascending(S)[k])), SegName((Ascending(S)[k] + shift) % (MaxSegId + 1))>>] :
        S \in SUBSET (0..MaxSegId), shift \in NameShifts}

\* The keys left as the strings of the file
IntOfSkipped(x) == x

\* int(k)
IntOfKey(x) == IntOf(x)

\* id2label = {int(k): v for k, v in id2label.items()}
SegId2Label(file) == DictOf([k \in DOMAIN file |-> <<IntOfKey(file[k][1]), file[k][2]>>])

\* label2id = {v: k for k, v in id2label.items()}
SegLabel2Id(id2label) == DictOf([k \in DOMAIN id2label |-> <<id2label[k][2], id2label[k][1]>>])

SegLabelsIdle ==
    /\ label_file = EmptyDict
    /\ seg_id2label = EmptyDict
    /\ seg_label2id = EmptyDict
    /\ num_labels = 0

-----------------------------------------------------------------------------
(* 03_video_classification.ipynb: collate_fn *)

\* A video has up to MaxChannels channels and MaxFrames frames, an example a
\* label up to MaxLabel.
MaxChannels == 2
MaxFrames == 3
MaxLabel == 1

\* Heights and widths of a frame, numbers of examples of a batch
FrameSides == {1, 2}
ExampleCounts == {1, 2}

\* A tensor: its shape and the value at every index (a tuple counted from 0)
Indices(shape) ==
    LET longest == CHOOSE n \in Elements(shape) : \A m \in Elements(shape) : m <= n
    IN  {ix \in [DOMAIN shape -> 0..(longest - 1)] : \A a \in DOMAIN shape : ix[a] < shape[a]}
Tensor(shape, data) == [shape |-> shape, data |-> data]

\* tensor.permute(*dims): axis a of the result is axis dims[a] of the tensor
Permute(tensor, dims) ==
    LET shape == [a \in DOMAIN dims |-> tensor.shape[dims[a] + 1]]
        from(ix) == [b \in DOMAIN dims |-> ix[CHOOSE a \in DOMAIN dims : dims[a] + 1 = b]]
    IN  Tensor(shape, [ix \in Indices(shape) |-> tensor.data[from(ix)]])

\* torch.stack(tensors) of tensors of one shape: a new first axis
Stack(tensors) ==
    LET shape == <<Len(tensors)>> \o tensors[1].shape
    IN  Tensor(shape, [ix \in Indices(shape) |-> tensors[ix[1] + 1].data[Tail(ix)]])

\* torch.tensor(list) of a list of ints
TensorOfList(list) ==
    Tensor(<<Len(list)>>, [ix \in Indices(<<Len(list)>>) |-> list[ix[1] + 1]])

\* The axes left as they are
VideoAxesUnswapped == <<0, 1, 2, 3>>

\* permute(1, 0, 2, 3)
VideoAxes == <<1, 0, 2, 3>>

\* def collate_fn(examples)
collate_fn(exs) ==
    LET pixel_values == Stack([k \in DOMAIN exs |-> Permute(exs[k].video, VideoAxes)])
        labels == TensorOfList([k \in DOMAIN exs |-> exs[k].label])
    IN  [pixel_values |-> pixel_values, labels |-> labels]

\* A video of shape (channels, frames, height, width) all of whose pixels
\* differ, and differ from those of a video of another tint
Video(shape, tint) ==
    Tensor(shape, [ix \in Indices(shape) |->
              tint + ((ix[1] * shape[2] + ix[2]) * shape[3] + ix[3]) * shape[4] + ix[4]])
Tints == {0, 100}

\* The examples of one batch: the transforms give the videos one shape
ExampleLists ==
    UNION {[1..k -> {[video |-> Video(shape, tint), label |-> label, video_index |-> 0] :
                        tint \in Tints, label \in 0..MaxLabel}] :
              k \in ExampleCounts,
              shape \in (1..MaxChannels) \X (1..MaxFrames) \X FrameSides \X FrameSides}

CollateIdle ==
    /\ examples = <<>>
    /\ batch = <<>>

-----------------------------------------------------------------------------
(* The notebooks, cell by cell *)

\* A statement: its first line, the names it reads and binds, what it does
\* (install, load, load_finetuned, preprocess, infer, train, visualise, ...)
\* and the model it does it on.
St(line, uses, defs, op, model) ==
    [line |-> line, uses |-> uses, defs |-> defs, op |-> op, model |-> model]

\* A code cell: its first line, whether Python parses it, its statements.
Cell(line, parses, statements) ==
    [line |-> line, parses |-> parses, statements |-> statements]

\* 02_image_segmentation.ipynb
ImageSegmentationCells ==
    <<
      \* lines 31-31
      Cell(31, TRUE, <<
          St(31, {}, {}, "install", "")>>),
      \* lines 41-52
      Cell(41, TRUE, <<
          St(42, {}, {"AutoImageProcessor", "AutoModelForSemanticSegmentation", "ColorJitter", "Image", "Trainer", "TrainingArguments", "cached_download", "evaluate", "hf_hub_url", "json", "load_dataset", "np", "pipeline", "plt", "requests", "torch"}, "", "")>>),
      \* lines 88-91
      Cell(88, TRUE, <<
          St(89, {}, {"url"}, "", ""),
          St(90, {"Image", "requests", "url"}, {"image"}, "", ""),
          St(91, {"image"}, {}, "", "")>>),
      \* lines 101-104
      Cell(101, TRUE, <<
          St(102, {"pipeline"}, {"semantic_segmentation"}, "load", "semantic_segmentation"),
          St(103, {"image", "semantic_segmentation"}, {"results"}, "infer", "semantic_segmentation"),
          St(104, {"results"}, {}, "", "")>>),
      \* lines 114-117
      Cell(114, TRUE, <<
          St(115, {"results"}, {"labels"}, "", ""),
          St(116, {}, {"required_label"}, "", ""),
          St(117, {"labels", "required_label", "results"}, {}, "", "")>>),
      \* lines 145-147
      Cell(145, TRUE, <<
          St(145, {"pipeline"}, {"instance_segmentation"}, "load", "instance_segmentation"),
          St(146, {"image", "instance_segmentation"}, {"results"}, "infer", "instance_segmentation"),
          St(147, {"results"}, {}, "", "")>>),
      \* lines 157-158
      Cell(157, TRUE, <<
          St(158, {"results"}, {}, "", "")>>),
      \* lines 184-189
      Cell(184, TRUE, <<
          St(184, {"pipeline"}, {"panoptic_segmentation"}, "load", "panoptic_segmentation"),
          St(185, {"image", "panoptic_segmentation"}, {"results"}, "infer", "panoptic_segmentation"),
          St(189, {"results"}, {}, "", "")>>),
      \* lines 220-225
      Cell(220, TRUE, <<
          St(221, {"load_dataset"}, {"ds"}, "", ""),
          St(223, {"ds"}, {"ds"}, "", ""),
          St(224, {"ds"}, {"train_ds"}, "", ""),
          St(225, {"ds"}, {"test_ds"}, "", "")>>),
      \* lines 235-239
      Cell(235, TRUE, <<
          St(239, {"train_ds"}, {}, "", "")>>),
      \* lines 249-250
      Cell(249, TRUE, <<
          St(250, {"train_ds"}, {}, "", "")>>),
      \* lines 260-267
      Cell(260, TRUE, <<
          St(262, {}, {"repo_id"}, "", ""),
          St(263, {}, {"filename"}, "", ""),
          St(264, {"cached_download", "filename", "hf_hub_url", "json", "repo_id"}, {"id2label"}, "", ""),
          St(265, {"id2label"}, {"id2label"}, "", ""),
          St(266, {"id2label"}, {"label2id"}, "", ""),
          St(267, {"id2label"}, {"num_labels"}, "", "")>>),
      \* lines 285-292
      Cell(285, TRUE, <<
          St(291, {}, {"checkpoint"}, "", ""),
          St(292, {"AutoImageProcessor", "checkpoint"}, {"image_processor"}, "load", "image_processor")>>),
      \* lines 302-305
      Cell(302, TRUE, <<
          St(305, {"ColorJitter"}, {"jitter"}, "", "")>>),
      \* lines 315-331
      Cell(315, TRUE, <<
          St(319, {}, {"train_transforms"}, "", ""),
          St(327, {}, {"val_transforms"}, "", "")>>),
      \* lines 341-344
      Cell(341, TRUE, <<
          St(343, {"train_ds", "train_transforms"}, {}, "preprocess", ""),
          St(344, {"test_ds", "val_transforms"}, {}, "preprocess", "")>>),
      \* lines 362-363
      Cell(362, TRUE, <<
          St(363, {"evaluate"}, {"metric"}, "", "")>>),
      \* lines 373-397
      Cell(373, TRUE, <<
          St(375, {}, {"compute_metrics"}, "", "")>>),
      \* lines 415-417
      Cell(415, TRUE, <<
          St(417, {"AutoModelForSemanticSegmentation", "checkpoint", "id2label", "label2id"}, {"model"}, "load", "model")>>),
      \* lines 427-455
      Cell(427, TRUE, <<
          St(429, {"TrainingArguments"}, {"training_args"}, "", ""),
          St(446, {"Trainer", "compute_metrics", "model", "test_ds", "train_ds", "training_args"}, {"trainer"}, "", ""),
          St(455, {"image_processor", "jitter", "metric", "np", "num_labels", "torch", "trainer"}, {}, "train", "model")>>),
      \* lines 473-478
      Cell(473, TRUE, <<
          St(474, {"load_dataset"}, {"ds"}, "", ""),
          St(475, {"ds"}, {"ds"}, "", ""),
          St(476, {"ds"}, {"test_ds"}, "", ""),
          St(477, {"ds"}, {"image"}, "", ""),
          St(478, {"image"}, {}, "", "")>>),
      \* lines 488-509
      Cell(488, TRUE, <<
          St(491, {"image", "image_processor"}, {"encoding"}, "preprocess", ""),
          St(494, {"torch"}, {"device"}, "", ""),
          St(495, {"device", "encoding"}, {"pixel_values"}, "", ""),
          St(498, {"model", "pixel_values"}, {"outputs"}, "infer", "model"),
          St(499, {"outputs"}, {"logits"}, "", ""),
          St(502, {"image", "logits", "nn"}, {"upsampled_logits"}, "", ""),
          St(509, {"upsampled_logits"}, {"pred_seg"}, "", "")>>),
      \* lines 519-674
      Cell(519, TRUE, <<
          St(521, {}, {"ade_palette"}, "", "")>>),
      \* lines 684-696
      Cell(684, TRUE, <<
          St(685, {"np", "pred_seg"}, {"color_seg"}, "", ""),
          St(686, {"ade_palette", "np"}, {"palette"}, "", ""),
          St(687, {"color_seg", "palette", "pred_seg"}, {"color", "label"}, "", ""),
          St(689, {"color_seg"}, {"color_seg"}, "", ""),
          St(691, {"color_seg", "image", "np"}, {"img"}, "", ""),
          St(692, {"img", "np"}, {"img"}, "", ""),
          St(694, {"plt"}, {}, "visualise", ""),
          St(695, {"img", "plt"}, {}, "visualise", ""),
          St(696, {"plt"}, {}, "visualise", "")>>),
      \* lines 722-726
      Cell(722, TRUE, <<>>),
      \* lines 736-768
      Cell(736, TRUE, <<
          St(738, {}, {"Dataset", "DatasetDict", "Image"}, "", ""),
          St(740, {}, {"image_paths_train"}, "", ""),
          St(741, {}, {"label_paths_train"}, "", ""),
          St(743, {}, {"image_paths_validation"}, "", ""),
          St(744, {}, {"label_paths_validation"}, "", ""),
          St(746, {}, {"create_dataset"}, "", ""),
          St(754, {"Dataset", "Image", "create_dataset", "image_paths_train", "label_paths_train"}, {"train_dataset"}, "raise", ""),
          St(755, {"Dataset", "Image", "create_dataset", "image_paths_validation", "label_paths_validation"}, {"validation_dataset"}, "raise", ""),
          St(758, {"DatasetDict", "train_dataset", "validation_dataset"}, {"dataset"}, "", ""),
          St(765, {"dataset"}, {}, "", "")>>),
      \* lines 778-784
      Cell(778, FALSE, <<>>)
    >>

\* 03_video_classification.ipynb, the video classification notebook
VideoClassificationCells ==
    <<
      \* lines 39-39
      Cell(39, TRUE, <<
          St(39, {}, {}, "install", "")>>),
      \* lines 49-57
      Cell(49, TRUE, <<
          St(49, {}, {"Image", "Trainer", "TrainingArguments", "VideoMAEForVideoClassification", "VideoMAEImageProcessor", "evaluate", "imageio", "np", "pathlib", "pipeline", "pytorchvideo", "tarfile"}, "", "")>>),
      \* lines 90-94
      Cell(90, TRUE, <<
          St(90, {}, {"hf_hub_download"}, "", ""),
          St(92, {}, {"hf_dataset_identifier"}, "", ""),
          St(93, {}, {"filename"}, "", ""),
          St(94, {"filename", "hf_dataset_identifier", "hf_hub_download"}, {"file_path"}, "", "")>>),
      \* lines 104-106
      Cell(104, TRUE, <<
          St(105, {"file_path", "tarfile"}, {"t"}, "", "")>>),
      \* lines 178-199
      Cell(178, TRUE, <<
          St(181, {}, {"dataset_root_path"}, "", ""),
          St(182, {"dataset_root_path", "pathlib"}, {"dataset_root_path"}, "", ""),
          St(183, {"dataset_root_path"}, {"video_count_train"}, "", ""),
          St(184, {"dataset_root_path"}, {"video_count_val"}, "", ""),
          St(185, {"dataset_root_path"}, {"video_count_test"}, "", ""),
          St(186, {"video_count_test", "video_count_train", "video_count_val"}, {"video_total"}, "", ""),
          St(187, {"video_total"}, {}, "", ""),
          St(194, {"dataset_root_path"}, {"all_video_file_paths"}, "", ""),
          St(199, {"all_video_file_paths"}, {}, "", "")>>),
      \* lines 209-210
      Cell(209, TRUE, <<>>),
      \* lines 237-242
      Cell(237, TRUE, <<
          St(237, {"all_video_file_paths"}, {"class_labels"}, "", ""),
          St(238, {"class_labels"}, {"label2id"}, "", ""),
          St(239, {"label2id"}, {"id2label"}, "", ""),
          St(241, {"label2id"}, {}, "", "")>>),
      \* lines 260-271
      Cell(260, TRUE, <<
          St(264, {}, {"model_ckpt"}, "", ""),
          St(265, {"VideoMAEImageProcessor", "model_ckpt"}, {"image_processor"}, "load", "image_processor"),
          St(266, {"VideoMAEForVideoClassification", "id2label", "label2id", "model_ckpt"}, {"model"}, "load", "model")>>),
      \* lines 289-385
      Cell(289, TRUE, <<
          St(292, {}, {"ApplyTransformToKey", "Compose", "Lambda", "Normalize", "RandomCrop", "RandomHorizontalFlip", "RandomShortSideScale", "RemoveKey", "Resize", "ShortSideScale", "UniformTemporalSubsample"}, "", ""),
          St(310, {"image_processor"}, {"mean"}, "", ""),
          St(311, {"image_processor"}, {"std"}, "", ""),
          St(312, {"image_processor"}, {"height", "width"}, "", ""),
          St(317, {"height", "width"}, {"resize_to"}, "", ""),
          St(319, {"model"}, {"num_frames_to_sample"}, "", ""),
          St(320, {}, {"sample_rate"}, "", ""),
          St(321, {}, {"fps"}, "", ""),
          St(322, {"fps", "num_frames_to_sample", "sample_rate"}, {"clip_duration"}, "", ""),
          St(327, {"ApplyTransformToKey", "Compose", "Lambda", "Normalize", "RandomCrop", "RandomHorizontalFlip", "RandomShortSideScale", "UniformTemporalSubsample", "mean", "num_frames_to_sample", "resize_to", "std"}, {"train_transform"}, "", ""),
          St(345, {"clip_duration", "dataset_root_path", "os", "pytorchvideo", "train_transform"}, {"train_dataset"}, "preprocess", ""),
          St(353, {"ApplyTransformToKey", "Compose", "Lambda", "Normalize", "Resize", "UniformTemporalSubsample", "mean", "num_frames_to_sample", "resize_to", "std"}, {"val_transform"}, "", ""),
          St(369, {"clip_duration", "dataset_root_path", "os", "pytorchvideo", "val_transform"}, {"val_dataset"}, "preprocess", ""),
          St(376, {"clip_duration", "dataset_root_path", "os", "pytorchvideo", "val_transform"}, {"test_dataset"}, "preprocess", "")>>),
      \* lines 395-396
      Cell(395, TRUE, <<
          St(396, {"test_dataset", "train_dataset", "val_dataset"}, {}, "", "")>>),
      \* lines 414-443
      Cell(414, TRUE, <<
          St(415, {}, {"unnormalize_img"}, "", ""),
          St(421, {}, {"create_gif"}, "", ""),
          St(435, {}, {"display_gif"}, "", ""),
          St(441, {"train_dataset"}, {"sample_video"}, "", ""),
          St(442, {"sample_video"}, {"video_tensor"}, "", ""),
          St(443, {"Image", "create_gif", "display_gif", "imageio", "mean", "std", "unnormalize_img", "video_tensor"}, {}, "visualise", "")>>),
      \* lines 461-468
      Cell(461, TRUE, <<
          St(464, {"evaluate"}, {"metric"}, "", ""),
          St(466, {}, {"compute_metrics"}, "", "")>>),
      \* lines 486-506
      Cell(486, TRUE, <<
          St(489, {"model_ckpt"}, {"model_name"}, "", ""),
          St(490, {"model_name"}, {"new_model_name"}, "", ""),
          St(491, {}, {"num_epochs"}, "int", ""),
          St(493, {"TrainingArguments", "batch_size", "new_model_name", "num_epochs", "train_dataset"}, {"args"}, "training_arguments", "")>>),
      \* lines 516-524
      Cell(516, TRUE, <<
          St(518, {}, {"collate_fn"}, "", "")>>),
      \* lines 534-542
      Cell(534, TRUE, <<
          St(534, {"Trainer", "args", "collate_fn", "compute_metrics", "image_processor", "model", "train_dataset", "val_dataset"}, {"trainer"}, "", "")>>),
      \* lines 552-552
      Cell(552, TRUE, <<
          St(552, {"metric", "np", "torch", "trainer"}, {"train_results"}, "train", "model")>>),
      \* lines 570-571
      Cell(570, TRUE, <<
          St(571, {"test_dataset"}, {"sample_test_video"}, "", "")>>),
      \* lines 581-583
      Cell(581, TRUE, <<
          St(582, {"new_model_name", "pipeline"}, {"video_cls"}, "load_finetuned", "video_cls"),
          St(583, {"video_cls"}, {}, "infer", "video_cls")>>),
      \* lines 593-620
      Cell(593, TRUE, <<
          St(595, {}, {"run_inference"}, "", ""),
          St(617, {"run_inference", "sample_test_video", "torch", "trained_model"}, {"logits"}, "infer", "trained_model"),
          St(619, {"logits"}, {"predicted_class_idx"}, "", ""),
          St(620, {"model", "predicted_class_idx"}, {}, "", "")>>)
    >>

\* 03_video_classification.ipynb, the image classification notebook
ImageClassificationCells ==
    <<
      \* lines 677-677
      Cell(677, TRUE, <<
          St(677, {}, {}, "install", "")>>),
      \* lines 687-692
      Cell(687, TRUE, <<
          St(687, {}, {"AutoImageProcessor", "AutoModelForImageClassification", "Compose", "DefaultDataCollator", "Normalize", "RandomResizedCrop", "ToTensor", "Trainer", "TrainingArguments", "evaluate", "load_dataset", "np", "pipeline", "torch"}, "", "")>>),
      \* lines 710-714
      Cell(710, TRUE, <<
          St(711, {"load_dataset"}, {"food"}, "", ""),
          St(714, {"food"}, {"food"}, "", "")>>),
      \* lines 724-728
      Cell(724, TRUE, <<
          St(728, {"food"}, {}, "", "")>>),
      \* lines 738-744
      Cell(738, TRUE, <<
          St(740, {"food"}, {"labels"}, "", ""),
          St(741, {}, {"id2label", "label2id"}, "", ""),
          St(742, {"id2label", "label2id", "labels"}, {"i", "label"}, "", "")>>),
      \* lines 754-755
      Cell(754, TRUE, <<
          St(755, {"id2label"}, {}, "", "")>>),
      \* lines 765-765
      Cell(765, TRUE, <<
          St(765, {"label2id"}, {}, "", "")>>),
      \* lines 783-785
      Cell(783, TRUE, <<
          St(784, {}, {"checkpoint"}, "", ""),
          St(785, {"AutoImageProcessor", "checkpoint"}, {"image_processor"}, "load", "image_processor")>>),
      \* lines 795-812
      Cell(795, TRUE, <<
          St(797, {"Normalize", "image_processor"}, {"normalize"}, "", ""),
          St(798, {"image_processor"}, {"size"}, "", ""),
          St(803, {"Compose", "RandomResizedCrop", "ToTensor", "normalize", "size"}, {"_transforms"}, "", ""),
          St(806, {}, {"transforms"}, "", ""),
          St(812, {"food", "transforms"}, {"food"}, "preprocess", "")>>),
      \* lines 822-824
      Cell(822, TRUE, <<
          St(824, {"DefaultDataCollator"}, {"data_collator"}, "", "")>>),
      \* lines 842-842
      Cell(842, TRUE, <<
          St(842, {"evaluate"}, {"accuracy"}, "", "")>>),
      \* lines 852-857
      Cell(852, TRUE, <<
          St(854, {}, {"compute_metrics"}, "", "")>>),
      \* lines 875-882
      Cell(875, TRUE, <<
          St(877, {"AutoModelForImageClassification", "checkpoint", "id2label", "label2id", "labels"}, {"model"}, "load", "model")>>),
      \* lines 892-923
      Cell(892, TRUE, <<
          St(893, {"TrainingArguments"}, {"training_args"}, "", ""),
          St(912, {"Trainer", "compute_metrics", "data_collator", "food", "image_processor", "model", "training_args"}, {"trainer"}, "", ""),
          St(923, {"_transforms", "accuracy", "np", "trainer"}, {}, "train", "model")>>),
      \* lines 941-943
      Cell(941, TRUE, <<
          St(942, {"load_dataset"}, {"ds"}, "", ""),
          St(943, {"ds"}, {"image"}, "", "")>>),
      \* lines 953-955
      Cell(953, TRUE, <<
          St(954, {"pipeline"}, {"classifier"}, "load_finetuned", "classifier"),
          St(955, {"classifier", "image"}, {}, "infer", "classifier")>>),
      \* lines 965-974
      Cell(965, TRUE, <<
          St(966, {"AutoImageProcessor"}, {"image_processor"}, "load_finetuned", "image_processor"),
          St(967, {"image", "image_processor"}, {"inputs"}, "preprocess", ""),
          St(969, {"AutoModelForImageClassification"}, {"model"}, "load_finetuned", "model"),
          St(970, {"inputs", "model", "torch"}, {"logits"}, "infer", "model"),
          St(973, {"logits"}, {"predicted_label"}, "", ""),
          St(974, {"model", "predicted_label"}, {}, "", "")>>)
    >>

\* 10_knowledge_distillation.ipynb
KnowledgeDistillationCells ==
    <<
      \* lines 124-124
      Cell(124, TRUE, <<
          St(124, {}, {}, "install", "")>>),
      \* lines 134-142
      Cell(134, TRUE, <<
          St(134, {}, {"AutoImageProcessor", "AutoModelForImageClassification", "DefaultDataCollator", "F", "MobileNetV2Config", "MobileNetV2ForImageClassification", "Trainer", "TrainingArguments", "evaluate", "load_dataset", "nn", "np", "torch"}, "", "")>>),
      \* lines 160-162
      Cell(160, TRUE, <<
          St(162, {"load_dataset"}, {"dataset"}, "", "")>>),
      \* lines 180-189
      Cell(180, TRUE, <<
          St(182, {"AutoImageProcessor"}, {"teacher_processor"}, "load", "teacher_processor"),
          St(184, {}, {"process"}, "", ""),
          St(189, {"dataset", "process", "teacher_processor"}, {"processed_datasets"}, "preprocess", "")>>),
      \* lines 199-236
      Cell(199, TRUE, <<
          St(206, {"Trainer"}, {"ImageDistilTrainer"}, "", "")>>),
      \* lines 254-279
      Cell(254, TRUE, <<
          St(255, {"TrainingArguments"}, {"training_args"}, "", ""),
          St(267, {"processed_datasets"}, {"num_labels"}, "", ""),
          St(270, {"AutoModelForImageClassification", "num_labels"}, {"teacher_model"}, "load", "teacher_model"),
          St(277, {"MobileNetV2Config"}, {"student_config"}, "", ""),
          St(278, {"num_labels", "student_config"}, {}, "", ""),
          St(279, {"MobileNetV2ForImageClassification", "student_config"}, {"student_model"}, "", "")>>),
      \* lines 297-302
      Cell(297, TRUE, <<
          St(297, {"evaluate"}, {"accuracy"}, "", ""),
          St(299, {}, {"compute_metrics"}, "", "")>>),
      \* lines 320-333
      Cell(320, TRUE, <<
          St(321, {"DefaultDataCollator"}, {"data_collator"}, "", ""),
          St(322, {"ImageDistilTrainer", "compute_metrics", "data_collator", "nn", "processed_datasets", "student_model", "teacher_model", "teacher_processor", "torch", "training_args"}, {"trainer"}, "construct", "student_model")>>),
      \* lines 343-343
      Cell(343, TRUE, <<
          St(343, {"F", "accuracy", "np", "torch", "trainer"}, {}, "train", "student_model")>>),
      \* lines 353-354
      Cell(353, TRUE, <<
          St(354, {"F", "accuracy", "np", "processed_datasets", "torch", "trainer"}, {}, "infer", "student_model")>>)
    >>

\* 11_mask_generation.ipynb
MaskGenerationCells ==
    <<
      \* lines 45-45
      Cell(45, TRUE, <<
          St(45, {}, {}, "install", "")>>),
      \* lines 55-55
      Cell(55, TRUE, <<
          St(55, {}, {"PYTORCH_ENABLE_MPS_FALLBACK"}, "", "")>>),
      \* lines 65-73
      Cell(65, TRUE, <<
          St(65, {}, {"Image", "SamModel", "SamProcessor", "np", "patches", "pipeline", "plt", "requests", "torch"}, "", ""),
          St(73, {"torch"}, {"mps_device"}, "", "")>>),
      \* lines 91-92
      Cell(91, TRUE, <<
          St(91, {}, {"checkpoint"}, "", ""),
          St(92, {"checkpoint", "pipeline"}, {"mask_generator"}, "load", "mask_generator")>>),
      \* lines 102-106
      Cell(102, TRUE, <<
          St(103, {}, {"img_url"}, "", ""),
          St(104, {"Image", "img_url", "requests"}, {"image"}, "", ""),
          St(106, {"image"}, {}, "", "")>>),
      \* lines 116-120
      Cell(116, TRUE, <<
          St(120, {"image", "mask_generator"}, {"masks"}, "infer", "mask_generator")>>),
      \* lines 130-137
      Cell(130, TRUE, <<
          St(131, {"image", "plt"}, {}, "visualise", ""),
          St(133, {"masks", "plt"}, {"i", "mask"}, "visualise", ""),
          St(136, {"plt"}, {}, "visualise", ""),
          St(137, {"plt"}, {}, "visualise", "")>>),
      \* lines 155-158
      Cell(155, TRUE, <<
          St(155, {"torch"}, {"device"}, "", ""),
          St(157, {"SamModel", "device"}, {"model"}, "load", "model"),
          St(158, {"SamProcessor"}, {"processor"}, "load", "processor")>>),
      \* lines 168-196
      Cell(168, TRUE, <<
          St(170, {}, {"input_points"}, "", ""),
          St(172, {"device", "image", "input_points", "processor"}, {"inputs"}, "preprocess", ""),
          St(173, {"inputs", "model", "torch"}, {"outputs"}, "infer", "model"),
          St(175, {"inputs", "outputs", "processor"}, {"masks"}, "", ""),
          St(178, {"plt"}, {"axes", "fig"}, "visualise", ""),
          St(180, {"axes", "image"}, {}, "visualise", ""),
          St(181, {"axes"}, {}, "visualise", ""),
          St(182, {"masks"}, {"mask_list"}, "", ""),
          St(184, {"axes", "image", "mask_list", "np"}, {"i", "mask", "overlayed_image"}, "visualise", ""),
          St(193, {"axes"}, {"ax"}, "visualise", ""),
          St(196, {"plt"}, {}, "visualise", "")>>),
      \* lines 206-234
      Cell(206, TRUE, <<
          St(209, {}, {"box"}, "", ""),
          St(211, {"box", "image", "processor"}, {"inputs"}, "preprocess", ""),
          St(218, {"inputs", "model", "torch"}, {"outputs"}, "infer", "model"),
          St(221, {"inputs", "outputs", "processor"}, {"mask"}, "", ""),
          St(228, {"plt"}, {"ax", "fig"}, "visualise", ""),
          St(229, {"ax", "image"}, {}, "visualise", ""),
          St(231, {"patches"}, {"rectangle"}, "", ""),
          St(232, {"ax", "rectangle"}, {}, "visualise", ""),
          St(233, {"ax"}, {}, "visualise", ""),
          St(234, {"plt"}, {}, "visualise", "")>>),
      \* lines 244-250
      Cell(244, TRUE, <<
          St(245, {"plt"}, {"ax", "fig"}, "visualise", ""),
          St(246, {"ax", "image"}, {}, "visualise", ""),
          St(247, {"ax", "mask"}, {}, "visualise", ""),
          St(249, {"ax"}, {}, "visualise", ""),
          St(250, {"plt"}, {}, "visualise", "")>>)
    >>

Notebooks ==
    {"image_segmentation", "video_classification", "image_classification",
     "knowledge_distillation", "mask_generation"}

Cells(nb) ==
    CASE nb = "image_segmentation" -> ImageSegmentationCells
      [] nb = "video_classification" -> VideoClassificationCells
      [] nb = "image_classification" -> ImageClassificationCells
      [] nb = "knowledge_distillation" -> KnowledgeDistillationCells
      [] nb = "mask_generation" -> MaskGenerationCells

\* num_epochs = 4
num_epochs == 4

\* The int literal a statement assigns to a name
IntValue(name) == CASE name = "num_epochs" -> num_epochs

\* The videos the train split can hold
TrainVideoCounts == {0, 7, 300}

\* The place of a statement in the order install, load, preprocess,
\* inference or fine-tuning, visualise; 0 for a statement of no phase
Phase(op) ==
    CASE op = "install" -> 1
      [] op \in {"load", "load_finetuned"} -> 2
      [] op = "preprocess" -> 3
      [] op \in {"infer", "train"} -> 4
      [] op = "visualise" -> 5
      [] OTHER -> 0

\* The kernel after a statement that raised
Raise(env, exception) == [env EXCEPT !.raised = exception]

\* The kernel after a statement that bound its names
Bind(env, st) == [env EXCEPT !.bound = @ \cup st.defs]

\* (train_dataset.num_videos // batch_size) * num_epochs
MaxStepsOf(videos, values) == (videos \div values["batch_size"]) * values["num_epochs"]

\* One statement. A name that is not bound raises NameError before anything
\* is called, and a statement that raises binds nothing.
Execute(st, env, videos, saved, accepted) ==
    IF ~(st.uses \subseteq env.bound)
    THEN [Raise(env, "NameError") EXCEPT
              !.used_unloaded = @ \/ (st.op \in {"infer", "train"} /\ st.model \notin env.bound)]
    ELSE LET phase == Phase(st.op)
             at == [env EXCEPT
                       !.out_of_order = @ \/ (phase > 0 /\ phase < env.highest),
                       !.highest = IF phase > @ THEN phase ELSE @]
         IN  CASE st.op = "raise" -> Raise(at, "TypeError")
               [] st.op = "construct" ->
                      IF accepted THEN Bind(at, st) ELSE Raise(at, "TypeError")
               [] st.op = "load_finetuned" ->
                      LET used == [at EXCEPT !.used_untuned = @ \/ ~env.trained]
                      IN  IF env.trained \/ saved THEN Bind(used, st) ELSE Raise(used, "OSError")
               [] st.op = "train" ->
                      Bind([at EXCEPT !.trained = TRUE,
                                      !.optimizer_steps = IF env.max_steps > 0
                                                          THEN env.max_steps ELSE -1], st)
               [] st.op = "training_arguments" ->
                      Bind([at EXCEPT !.max_steps = MaxStepsOf(videos, env.ints)], st)
               [] st.op = "int" ->
                      Bind([at EXCEPT !.ints = [n \in DOMAIN @ \cup st.defs |->
                                                   IF n \in st.defs THEN IntValue(n) ELSE @[n]]], st)
               [] OTHER -> Bind(at, st)

\* The statements of a cell in order, up to the first that raises
RECURSIVE RunStatements(_, _, _, _, _)
RunStatements(statements, env, videos, saved, accepted) ==
    IF Len(statements) = 0 \/ env.raised # "none" THEN env
    ELSE RunStatements(Tail(statements), Execute(Head(statements), env, videos, saved, accepted),
                       videos, saved, accepted)

\* A cell: one that does not parse raises before any statement runs.
RunCellOn(c, env, videos, saved, accepted) ==
    IF ~c.parses THEN Raise(env, "SyntaxError")
    ELSE RunStatements(c.statements, env, videos, saved, accepted)

NotebookIdle ==
    /\ notebook = "none"
    /\ cell = 0
    /\ bound = {}
    /\ ints = <<>>
    /\ raised = "none"
    /\ highest = 0
    /\ out_of_order = FALSE
    /\ used_unloaded = FALSE
    /\ used_untuned = FALSE
    /\ trained = FALSE
    /\ max_steps = -1
    /\ optimizer_steps = 0
    /\ num_videos = 0
    /\ checkpoint_saved = FALSE
    /\ kwargs_accepted = FALSE

-----------------------------------------------------------------------------
(* 02_image_segmentation.ipynb: do_reduce_labels, the loss, compute_metrics *)

\* An annotation has MaxPixels pixels; its labels are 0, the background, and
\* the classes 1..MaxClass.
MaxPixels == 3
MaxClass == 2

\* do_reduce_labels=True
do_reduce_labels == TRUE

\* ignore_index=255
ignore_index == 255

\* reduce_labels=False
reduce_labels == FALSE

\* The label SegFormer's loss function ignores
semantic_loss_ignore_index == 255

\* Arithmetic of a uint8 array
Uint8(n) == n % 256

\* The labels left as they are
ReduceLabelSkipped(label) == label

\* Reducing one label: label[label == 0] = 255, label = label - 1,
\* label[label == 254] = 255
ReduceLabel(label) ==
    LET background == IF label = 0 THEN 255 ELSE label
        decreased == Uint8(background - 1)
    IN  IF decreased = 254 THEN 255 ELSE decreased

\* The labels the image processor returns for an annotation
ProcessorLabels(pixels, reduce) ==
    [i \in DOMAIN pixels |-> IF reduce THEN ReduceLabel(pixels[i]) ELSE pixels[i]]

\* The cross-entropy term of one pixel: smaller when the prediction is right
PixelLoss(prediction, label) == IF prediction = label THEN 1 ELSE 2

\* The sum of f over the pixels of S
RECURSIVE PixelSum(_, _)
PixelSum(f, S) ==
    IF S = {} THEN 0
    ELSE LET i == CHOOSE j \in S : TRUE IN f[i] + PixelSum(f, S \ {i})

\* The loss of the model: the mean of the terms of the pixels whose label is
\* not the ignored one, kept as their sum and their number
CrossEntropyLoss(predictions, labels, ignored) ==
    LET kept == {i \in DOMAIN labels : labels[i] # ignored}
    IN  [sum |-> PixelSum([i \in DOMAIN labels |-> PixelLoss(predictions[i], labels[i])], kept),
         count |-> Cardinality(kept)]

\* metric.compute(predictions, references, num_labels, ignore_index,
\* reduce_labels) of mean_iou: the areas of every class over the pixels whose
\* reference is not ignore_index
MeanIoUAreas(predictions, references, classes, ignored, reduce) ==
    LET label == ProcessorLabels(references, reduce)
        kept == {i \in DOMAIN label : label[i] # ignored}
    IN  [c \in 0..(classes - 1) |->
            [area_intersect |-> Cardinality({i \in kept : predictions[i] = c /\ label[i] = c}),
             area_pred_label |-> Cardinality({i \in kept : predictions[i] = c}),
             area_label |-> Cardinality({i \in kept : label[i] = c})]]

\* The annotations and the predictions of an image of MaxPixels pixels
Annotations == [1..MaxPixels -> 0..MaxClass]
Predictions == [1..MaxPixels -> 0..(MaxClass - 1)]

ReduceLabelsIdle ==
    /\ annotation = <<>>
    /\ pred_labels = <<>>
    /\ inputs_labels = <<>>
    /\ seg_loss = <<>>
    /\ metrics = <<>>

-----------------------------------------------------------------------------
(* 02_image_segmentation.ipynb: train_transforms and val_transforms *)

\* A batch shows pictures 1..MaxPictures, of a brightness 0..MaxBrightness.
MaxPictures == 2
MaxBrightness == 2

\* Numbers of examples of a batch
TransformBatchSizes == {1, 2}

\* The changes ColorJitter draws at random, as steps of brightness
JitterSteps == {-1, 0, 1}

\* An image: the picture it shows and the colours it shows it in
Picture(scene, brightness) == [scene |-> scene, brightness |-> brightness]

\* The annotation of a picture: the segmentation map of its scene
Annotation(scene) == [map_of |-> scene]

\* jitter(x) with the change it drew: the colours change, the picture does not.
jitter(x, step) ==
    [x EXCEPT !.brightness = IF @ + step < 0 THEN 0
                             ELSE IF @ + step > MaxBrightness THEN MaxBrightness
                             ELSE @ + step]

\* val_transforms with the jitter of train_transforms
ValImagesJittered(example) == [i \in DOMAIN example.image |-> jitter(example.image[i], 1)]

\* images = [jitter(x) for x in example_batch["image"]]
TrainImages(example, drawn) == [i \in DOMAIN example.image |-> jitter(example.image[i], drawn[i])]

\* images = [x for x in example_batch["image"]]
ValImages(example) == [i \in DOMAIN example.image |-> example.image[i]]

\* labels = [x for x in example_batch["annotation"]]
TransformLabels(example) == [i \in DOMAIN example.annotation |-> example.annotation[i]]

\* The batches of the dataset: annotation i is the map of image i.
ExampleBatches ==
    UNION {{[image |-> [i \in 1..k |-> Picture(scenes[i], levels[i])],
             annotation |-> [i \in 1..k |-> Annotation(scenes[i])]] :
               scenes \in [1..k -> 1..MaxPictures], levels \in [1..k -> 0..MaxBrightness]} :
             k \in TransformBatchSizes}

TransformsIdle ==
    /\ example_batch = <<>>
    /\ processor_images = <<>>
    /\ processor_labels = <<>>

\* ---------------------------------------------------------------------------
\* Binary floating point (03_video_classification: Normalize, unnormalize_img)
\*
\* torch keeps the video as float32 and numpy promotes a float32 array
\* combined with a list of Python floats to float64.  Every operation
\* returns the exact result rounded to the nearest value of its precision,
\* ties to even.  Exponents are unbounded: the values of this pipeline are
\* far from the overflow and the subnormal range of either format.
\* ---------------------------------------------------------------------------
Float32Bits == 24
Float64Bits == 53

MaxPixel == 255
Channels == 3
Thousand == 1000

\* image_processor.image_mean and image_std of the checkpoint, in thousandths
image_mean == <<485, 456, 406>>
image_std == <<229, 224, 225>>

\* A natural number is kept as its digits of LimbBits bits each, least
\* significant first, so that no intermediate value leaves 32 bits
LimbBits == 7
Radix == 2 ^ LimbBits

RECURSIVE Limbs(_)
Limbs(n) == IF n = 0 THEN <<>> ELSE <<n % Radix>> \o Limbs(n \div Radix)

RECURSIVE NatOf(_)
NatOf(l) == IF l = <<>> THEN 0 ELSE Head(l) + Radix * NatOf(Tail(l))

RECURSIVE Trim(_)
Trim(l) ==
    IF l = <<>> THEN <<>>
    ELSE IF l[Len(l)] = 0 THEN Trim(SubSeq(l, 1, Len(l) - 1)) ELSE l

Zeros(k) == [i \in 1..k |-> 0]

RECURSIVE AddLimbs(_, _, _)
AddLimbs(a, b, carry) ==
    IF a = <<>> /\ b = <<>> THEN (IF carry = 0 THEN <<>> ELSE <<carry>>)
    ELSE LET s == (IF a = <<>> THEN 0 ELSE Head(a))
                  + (IF b = <<>> THEN 0 ELSE Head(b)) + carry
         IN  <<s % Radix>> \o AddLimbs(IF a = <<>> THEN <<>> ELSE Tail(a),
                                       IF b = <<>> THEN <<>> ELSE Tail(b),
                                       s \div Radix)

\* a - b - borrow for a >= b + borrow, not trimmed
RECURSIVE SubLimbs(_, _, _)
SubLimbs(a, b, borrow) ==
    IF a = <<>> THEN <<>>
    ELSE LET d == Head(a) - (IF b = <<>> THEN 0 ELSE Head(b)) - borrow
         IN  <<(d + Radix) % Radix>> \o SubLimbs(Tail(a),
                                                 IF b = <<>> THEN <<>> ELSE Tail(b),
                                                 IF d < 0 THEN 1 ELSE 0)

\* a < b for trimmed a and b
RECURSIVE LessLimbs(_, _)
LessLimbs(a, b) ==
    IF Len(a) # Len(b) THEN Len(a) < Len(b)
    ELSE IF a = <<>> THEN FALSE
    ELSE IF a[Len(a)] # b[Len(b)] THEN a[Len(a)] < b[Len(b)]
    ELSE LessLimbs(SubSeq(a, 1, Len(a) - 1), SubSeq(b, 1, Len(b) - 1))

\* a * m + carry for a single digit m
RECURSIVE ScaleLimbs(_, _, _)
ScaleLimbs(a, m, carry) ==
    IF a = <<>> THEN (IF carry = 0 THEN <<>> ELSE <<carry>>)
    ELSE LET s == Head(a) * m + carry
         IN  <<s % Radix>> \o ScaleLimbs(Tail(a), m, s \div Radix)

RECURSIVE MulLimbs(_, _)
MulLimbs(a, b) ==
    IF a = <<>> \/ b = <<>> THEN <<>>
    ELSE AddLimbs(ScaleLimbs(b, Head(a), 0),
                  IF Tail(a) = <<>> THEN <<>> ELSE <<0>> \o MulLimbs(Tail(a), b),
                  0)

\* The number of binary digits of n
RECURSIVE BitLength(_)
BitLength(n) == IF n = 0 THEN 0 ELSE 1 + BitLength(n \div 2)

BitLen(l) == IF l = <<>> THEN 0 ELSE LimbBits * (Len(l) - 1) + BitLength(l[Len(l)])

\* Binary digit i of l, the least significant being digit 1
Bit(l, i) == (l[(i - 1) \div LimbBits + 1] \div 2 ^ ((i - 1) % LimbBits)) % 2

\* Some binary digit among the lowest k of l is 1
LowBits(l, k) ==
    \/ \E j \in 1..(k \div LimbBits) : l[j] # 0
    \/ k % LimbBits > 0 /\ l[k \div LimbBits + 1] % 2 ^ (k % LimbBits) # 0

ShiftLeft(l, s) == Trim(Zeros(s \div LimbBits) \o ScaleLimbs(l, 2 ^ (s % LimbBits), 0))

ShiftRight(l, s) ==
    LET whole == SubSeq(l, s \div LimbBits + 1, Len(l))
        t == s % LimbBits
    IN  Trim([i \in 1..Len(whole) |->
                whole[i] \div 2 ^ t
                + (IF i < Len(whole) THEN (whole[i + 1] % 2 ^ t) * 2 ^ (LimbBits - t)
                   ELSE 0)])

\* Quotient digits after the point and remainder of r / d, for r < d
RECURSIVE DivLimbs(_, _, _)
DivLimbs(r, d, count) ==
    IF count = 0 THEN [q |-> <<>>, r |-> r]
    ELSE LET rest == DivLimbs((r * Radix) % d, d, count - 1)
         IN  [q |-> rest.q \o <<(r * Radix) \div d>>, r |-> rest.r]

\* Round to nearest, ties to even: the digits of n kept at the given
\* precision and the number of binary digits dropped below them
RoundLimbs(n, inexact, precision) ==
    LET drop == BitLen(n) - precision
    IN  IF drop <= 0 THEN [man |-> n, shift |-> 0]
        ELSE LET kept == ShiftRight(n, drop)
                 below == inexact \/ LowBits(n, drop - 1)
                 up == Bit(n, drop) = 1 /\ (below \/ Bit(kept, 1) = 1)
             IN  [man |-> IF up THEN AddLimbs(kept, <<>>, 1) ELSE kept,
                  shift |-> drop]

\* The float (-1)^neg * man * 2^exp
Float(neg, n, exp, inexact, precision) ==
    LET r == RoundLimbs(Trim(n), inexact, precision)
    IN  [neg |-> neg, man |-> r.man, exp |-> exp + r.shift]

FloatOfInt(n) == [neg |-> FALSE, man |-> Limbs(n), exp |-> 0]

\* n / d rounded, for integers n >= 0 and d > 0 of at most 24 bits
FloatOfFraction(n, d, precision) ==
    LET count == (precision + 2 + BitLength(d)) \div LimbBits + 1
        after == DivLimbs(n % d, d, count)
    IN  Float(FALSE, after.q \o Limbs(n \div d), 0 - LimbBits * count,
              after.r # 0, precision)

FloatDiv(x, y, precision) ==
    LET f == FloatOfFraction(NatOf(x.man), NatOf(y.man), precision)
    IN  [neg |-> x.neg # y.neg, man |-> f.man, exp |-> f.exp + x.exp - y.exp]

FloatMul(x, y, precision) ==
    Float(x.neg # y.neg, MulLimbs(x.man, y.man), x.exp + y.exp, FALSE, precision)

FloatAdd(x, y, precision) ==
    LET e == IF x.exp < y.exp THEN x.exp ELSE y.exp
        a == ShiftLeft(x.man, x.exp - e)
        b == ShiftLeft(y.man, y.exp - e)
    IN  IF x.neg = y.neg THEN Float(x.neg, AddLimbs(a, b, 0), e, FALSE, precision)
        ELSE IF LessLimbs(a, b) THEN Float(y.neg, SubLimbs(b, a, 0), e, FALSE, precision)
        ELSE Float(x.neg, SubLimbs(a, b, 0), e, FALSE, precision)

FloatSub(x, y, precision) == FloatAdd(x, [y EXCEPT !.neg = ~y.neg], precision)

\* The integer part, towards zero
Truncate(x) ==
    LET whole == IF x.exp >= 0 THEN ShiftLeft(x.man, x.exp)
                 ELSE ShiftRight(x.man, 0 - x.exp)
    IN  IF x.neg THEN 0 - NatOf(whole) ELSE NatOf(whole)

\* A Python float written with three decimals
PyFloat(thousandths) == FloatOfFraction(thousandths, Thousand, Float64Bits)

mean(c) == PyFloat(image_mean[c])
std(c) == PyFloat(image_std[c])

\* torch.as_tensor(value, dtype=torch.float32)
AsFloat32(x) == Float(x.neg, x.man, x.exp, FALSE, Float32Bits)

\* Lambda(lambda x: x / 255.0) on a float32 tensor
Lambda(p) == FloatDiv(FloatOfInt(p), FloatOfInt(MaxPixel), Float32Bits)

\* Normalize(mean, std): tensor.sub_(mean).div_(std), in float32
Normalize(x, c) ==
    FloatDiv(FloatSub(x, AsFloat32(mean(c)), Float32Bits),
             AsFloat32(std(c)), Float32Bits)

\* astype("uint8") of a float64: the value truncated; a value that leaves
\* 0..255 when truncated has no defined result
AstypeUint8(x) ==
    IF Truncate(x) \in 0..MaxPixel THEN {Truncate(x)} ELSE 0..MaxPixel

Clip(v, lo, hi) == IF v < lo THEN lo ELSE IF v > hi THEN hi ELSE v

\* The values unnormalize_img can return for one value of channel c
unnormalize_img(img, c) ==
    LET scaled == FloatAdd(FloatMul(img, std(c), Float64Bits), mean(c), Float64Bits)
        bytes == AstypeUint8(FloatMul(scaled, FloatOfInt(MaxPixel), Float64Bits))
    IN  {Clip(v, 0, MaxPixel) : v \in bytes}

UnnormalizeIdle ==
    /\ pixel = 0
    /\ channel = 1
    /\ normalized = FloatOfInt(0)
    /\ frame_unnormalized = 0

otherThanDistil == <<videoLabelVars, foodLabelVars, segLabelVars, collateVars, notebookVars, reduceLabelVars, transformVars, unnormalizeVars>>
otherThanVideoLabels == <<distilVars, foodLabelVars, segLabelVars, collateVars, notebookVars, reduceLabelVars, transformVars, unnormalizeVars>>
otherThanFoodLabels == <<distilVars, videoLabelVars, segLabelVars, collateVars, notebookVars, reduceLabelVars, transformVars, unnormalizeVars>>
otherThanSegLabels == <<distilVars, videoLabelVars, foodLabelVars, collateVars, notebookVars, reduceLabelVars, transformVars, unnormalizeVars>>
otherThanCollate == <<distilVars, videoLabelVars, foodLabelVars, segLabelVars, notebookVars, reduceLabelVars, transformVars, unnormalizeVars>>
otherThanNotebook == <<distilVars, videoLabelVars, foodLabelVars, segLabelVars, collateVars, reduceLabelVars, transformVars, unnormalizeVars>>
otherThanReduceLabels == <<distilVars, videoLabelVars, foodLabelVars, segLabelVars, collateVars, notebookVars, transformVars, unnormalizeVars>>
otherThanTransforms == <<distilVars, videoLabelVars, foodLabelVars, segLabelVars, collateVars, notebookVars, reduceLabelVars, unnormalizeVars>>
otherThanUnnormalize == <<distilVars, videoLabelVars, foodLabelVars, segLabelVars, collateVars, notebookVars, reduceLabelVars, transformVars>>

-----------------------------------------------------------------------------
(* The inputs of compute_loss *)

\* Softened logit vectors whose softmax is dyadic.
DyadicLogits == {z \in [Classes -> 0..MaxLogit] : IsPow2(SumExp(z))}

\* The logits a model returns at temperature T: T times a dyadic vector.
RawLogits(T) == {[i \in Classes |-> T * z[i]] : z \in DyadicLogits}


Lambdas == {R(k, LambdaDen) : k \in 0..LambdaDen}

StudentLosses == {RInt(k) : k \in 0..MaxLoss}

\* What the two forward passes of one call return: the teacher's logits, the
\* student's logits (same batch) and the student's own loss.
Inputs(T) ==
    UNION {[tl : [1..B -> RawLogits(T)], sl : [1..B -> RawLogits(T)],
            s : StudentLosses] : B \in BatchSizes}

\* The logits, at temperature T, that favour class k over the others by ln 2.
Favour(k, T) == [i \in Classes |-> IF i = k THEN T ELSE 0]

\* The inputs of a run of several calls: one example per batch, the teacher
\* favouring class 1 and the student any class.
RunInputs(T) ==
    {[tl |-> <<Favour(1, T)>>, sl |-> <<Favour(k, T)>>, s |-> RInt(0)] :
        k \in Classes}

NewModel(training) == [training |-> training, params |-> 0, has_grad |-> FALSE]

-----------------------------------------------------------------------------
(* ImageDistilTrainer *)

DistilIdle ==
    /\ teacher = <<>>
    /\ student = <<>>
    /\ trainer_model = "none"
    /\ temperature = 0
    /\ lambda_param = <<>>
    /\ calls = "none"
    /\ steps = 0
    /\ teacher_logits = <<>>
    /\ student_logits = <<>>
    /\ teacher_requires_grad = FALSE
    /\ student_requires_grad = FALSE
    /\ soft_teacher = <<>>
    /\ soft_student = <<>>
    /\ distillation_loss = <<>>
    /\ student_target_loss = <<>>
    /\ loss = <<>>

DistilInit ==
    /\ pc = "new"
    /\ VideoLabelsIdle /\ FoodLabelsIdle /\ SegLabelsIdle /\ CollateIdle /\ NotebookIdle /\ ReduceLabelsIdle /\ TransformsIdle /\ UnnormalizeIdle
    /\ teacher \in {NewModel(t) : t \in BOOLEAN}
    /\ student = NewModel(TRUE)
    /\ trainer_model = "none"
    /\ temperature = 0
    /\ lambda_param = RInt(0)
    /\ calls = "none"
    /\ steps = 0
    /\ teacher_logits = <<>>
    /\ student_logits = <<>>
    /\ teacher_requires_grad = FALSE
    /\ student_requires_grad = FALSE
    /\ soft_teacher = <<>>
    /\ soft_student = <<>>
    /\ distillation_loss = RInt(0)
    /\ student_target_loss = RInt(0)
    /\ loss = RInt(0)

computeLossVars == <<calls, steps, teacher_logits, student_logits,
                     teacher_requires_grad, student_requires_grad, soft_teacher,
                     soft_student, distillation_loss, student_target_loss, loss>>

\* ImageDistilTrainer.__init__(teacher_model, student_model, temperature,
\* lambda_param, *args, **kwargs).  accepted: whether Trainer.__init__ accepts
\* the remaining arguments; when it raises, nothing after it runs.
Construct ==
    /\ pc = "new"
    /\ \E T \in 1..MaxTemp, lam \in Lambdas, accepted \in BOOLEAN :
          IF accepted
          THEN /\ pc' = "constructed"
               /\ trainer_model' = TrainerModel
               /\ teacher' = TeacherEval(teacher)
               /\ temperature' = T
               /\ lambda_param' = lam
          ELSE /\ pc' = "init_failed"
               /\ UNCHANGED <<trainer_model, teacher, temperature, lambda_param>>
    /\ UNCHANGED <<student, computeLossVars, otherThanDistil>>

\* compute_loss(self, student, inputs), called in gradient mode `mode`; the two
\* forward passes return in.tl and in.sl, and the student's own loss is in.s.
ComputeLoss(mode, in) ==
    LET softTeacher == SoftTeacher(in.tl, temperature)
        softStudent == SoftStudent(in.sl, temperature)
        distilLoss == DistillationLoss(softStudent, softTeacher, temperature)
    IN  /\ student_logits' = in.sl
        /\ student_requires_grad' = ForwardRequiresGrad(mode)
        /\ teacher_logits' = in.tl
        /\ teacher_requires_grad' = ForwardRequiresGrad(NoGrad(mode))
        /\ soft_teacher' = softTeacher
        /\ soft_student' = softStudent
        /\ distillation_loss' = distilLoss
        /\ student_target_loss' = in.s
        /\ loss' = BlendLoss(lambda_param, in.s, distilLoss)

\* loss.backward() and optimizer.step() of the Trainer: every model whose output
\* is in the loss's graph gets gradients, and the parameters of self.model move.
Backward(m, inGraph) == [m EXCEPT !.has_grad = m.has_grad \/ inGraph]
OptimizerStep(m, name) ==
    IF trainer_model = name /\ m.has_grad THEN [m EXCEPT !.params = m.params + 1] ELSE m
SetMode(m, name, training) ==
    IF trainer_model = name THEN [m EXCEPT !.training = training] ELSE m

\* Trainer.training_step on one batch: model.train(), compute_loss, backward, step.
TrainingStepOn(In, maxCalls) ==
    /\ pc = "constructed"
    /\ steps < maxCalls
    /\ \E in \in In :
          /\ ComputeLoss(TRUE, in)
          /\ calls' = "train"
          /\ steps' = steps + 1
          /\ student' = OptimizerStep(
                            Backward(SetMode(student, "student", TRUE),
                                     student_requires_grad'), "student")
          /\ teacher' = OptimizerStep(
                            Backward(SetMode(teacher, "teacher", TRUE),
                                     teacher_requires_grad'), "teacher")
    /\ UNCHANGED <<pc, trainer_model, temperature, lambda_param, otherThanDistil>>

\* Trainer.prediction_step on one batch: model.eval(), and compute_loss inside
\* torch.no_grad().
EvalStepOn(In, maxCalls) ==
    /\ pc = "constructed"
    /\ steps < maxCalls
    /\ \E in \in In :
          /\ ComputeLoss(NoGrad(TRUE), in)
          /\ calls' = "eval"
          /\ steps' = steps + 1
          /\ student' = SetMode(student, "student", FALSE)
          /\ teacher' = SetMode(teacher, "teacher", FALSE)
    /\ UNCHANGED <<pc, trainer_model, temperature, lambda_param, otherThanDistil>>

\* One training step on every input of the bounds.
TrainingStep == TrainingStepOn(Inputs(temperature), 1)

DistilNext == Construct \/ TrainingStep

SpecDistil == DistilInit /\ [][DistilNext]_vars

\* A run of up to MaxSteps training and evaluation steps, each on a batch of one
\* example.
TrainingStepRun == TrainingStepOn(RunInputs(temperature), MaxSteps)
EvalStepRun == EvalStepOn(RunInputs(temperature), MaxSteps)

DistilRunNext == Construct \/ TrainingStepRun \/ EvalStepRun

SpecDistilRun == DistilInit /\ [][DistilRunNext]_vars

-----------------------------------------------------------------------------
(* Claims about ImageDistilTrainer *)

Called == calls # "none"
Batch == DOMAIN teacher_logits

RLt(x, y) == RLe(x, y) /\ x # y

RECURSIVE RPow(_, _)
RPow(x, n) == IF n = 0 THEN RInt(1) ELSE RMul(x, RPow(x, n - 1))

\* exp(x ln 2) of an integer x of either sign
RExp2(x) == IF x >= 0 THEN RInt(2 ^ x) ELSE R(1, 2 ^ (-x))

\* C1: compute_loss returns (1 - lambda_param) * student_target_loss +
\* lambda_param * distillation_loss: the loss moves from the student's loss
\* towards the distillation loss by the fraction lambda_param of their
\* difference; at lambda_param = 0 it is the student's hard-label loss, at
\* lambda_param = 1 it is the distillation loss, and for every lambda_param in
\* [0, 1] it lies between the smaller and the larger of the two.
C1_BlendLoss ==
    Called =>
        /\ RSub(loss, student_target_loss)
             = RMul(lambda_param, RSub(distillation_loss, student_target_loss))
        /\ lambda_param = RInt(0) => loss = student_target_loss
        /\ lambda_param = RInt(1) => loss = distillation_loss
        /\ RLe(RMin(student_target_loss, distillation_loss), loss)
        /\ RLe(loss, RMax(student_target_loss, distillation_loss))

\* A call with 0 < lambda_param < 1 whose loss lies strictly between a smaller
\* student loss and a larger distillation loss.
C1_Witness ==
    /\ Called
    /\ RLt(RInt(0), lambda_param) /\ RLt(lambda_param, RInt(1))
    /\ RLt(student_target_loss, loss) /\ RLt(loss, distillation_loss)

KLDivergence(p, logq) ==
    LET crossEntropy == RSum([i \in Classes |-> RMul(p[i], RSub(RInt(0), logq[i]))], Classes)
        entropy == RSum([i \in Classes |-> RMul(p[i], RSub(RInt(0), RLog2(p[i])))], Classes)
    IN  RSub(crossEntropy, entropy)

MeanKLDivergence ==
    RMul(RSum([b \in Batch |-> KLDivergence(soft_teacher[b], soft_student[b])], Batch),
         R(1, Len(teacher_logits)))

\* C3: both models' logits are divided by the same temperature before the
\* softmax (teacher) and the log-softmax (student) over the classes: the
\* teacher's soft targets are a probability distribution whose ratios, raised to
\* the temperature, are the ratios of exp(logit), and the student's soft
\* outputs are normalised log-probabilities whose differences, times the
\* temperature, are the differences of its logits.  The distillation loss is
\* temperature squared times the mean Kullback-Leibler divergence; at
\* temperature 1 the soft targets are the plain softmax of the logits and the
\* divergence is unscaled.
C3_Temperature ==
    Called =>
        /\ \A b \in Batch :
              /\ RSum(soft_teacher[b], Classes) = RInt(1)
              /\ RSum([i \in Classes |-> RExp2(soft_student[b][i].num)], Classes) = RInt(1)
              /\ \A i, j \in Classes :
                    /\ RMul(RPow(soft_teacher[b][i], temperature),
                            RInt(Exp2(teacher_logits[b][j])))
                         = RMul(RPow(soft_teacher[b][j], temperature),
                                RInt(Exp2(teacher_logits[b][i])))
                    /\ soft_student[b][i].den = 1
                    /\ temperature * (soft_student[b][i].num - soft_student[b][j].num)
                         = student_logits[b][i] - student_logits[b][j]
        /\ distillation_loss = RMul(RInt(temperature * temperature), MeanKLDivergence)
        /\ temperature = 1 =>
              /\ \A b \in Batch : \A i \in Classes :
                    RMul(soft_teacher[b][i], RInt(SumExp(teacher_logits[b])))
                      = RInt(Exp2(teacher_logits[b][i]))
              /\ distillation_loss = MeanKLDivergence

\* A call at temperature 2 on a batch of two examples on which teacher and
\* student disagree.
C3_Witness ==
    /\ Called
    /\ temperature = 2
    /\ Len(teacher_logits) = 2
    /\ RLt(RInt(0), MeanKLDivergence)
    /\ RLt(MeanKLDivergence, distillation_loss)

\* C4: the teacher is never trained.  Once __init__ has returned the teacher is
\* in evaluation mode; its forward pass in compute_loss runs without gradient
\* tracking, so its output never requires gradient; after any sequence of
\* calls its mode and its parameters are what they were, and it holds no
\* gradients; the student's output is the one that carries gradient.
C4_TeacherFrozen ==
    pc = "constructed" =>
        /\ ~teacher.training
        /\ teacher.params = 0
        /\ ~teacher.has_grad
        /\ Called => ~teacher_requires_grad
        /\ calls = "train" => student_requires_grad

\* A run of three calls, the last one a training step, in which the optimizer
\* has moved the student's parameters.
C4_Witness ==
    /\ pc = "constructed"
    /\ steps = 3
    /\ calls = "train"
    /\ student.params >= 2
    /\ student_requires_grad /\ ~teacher_requires_grad

-----------------------------------------------------------------------------
(* 03_video_classification.ipynb: the cell that derives the label maps *)

VideoLabelsInit ==
    /\ pc = "paths"
    /\ DistilIdle /\ FoodLabelsIdle /\ SegLabelsIdle /\ CollateIdle /\ NotebookIdle /\ ReduceLabelsIdle /\ TransformsIdle /\ UnnormalizeIdle
    /\ all_video_file_paths \in VideoFileLists
    /\ class_labels = <<>>
    /\ video_label2id = EmptyDict
    /\ video_id2label = EmptyDict

\* The cell: class_labels, label2id and id2label, in this order.
DeriveVideoLabels ==
    /\ pc = "paths"
    /\ pc' = "labels"
    /\ class_labels' = ClassLabels(all_video_file_paths)
    /\ video_label2id' = Label2Id(ClassLabels(all_video_file_paths))
    /\ video_id2label' = Id2Label(Label2Id(ClassLabels(all_video_file_paths)))
    /\ UNCHANGED <<all_video_file_paths, otherThanVideoLabels>>

VideoLabelsNext == DeriveVideoLabels

SpecVideoLabels == VideoLabelsInit /\ [][VideoLabelsNext]_vars

\* The class directories of the videos
VideoClasses == {Item(Split(path, Slash), 2) : path \in Elements(all_video_file_paths)}

\* C6: label2id maps every class name to an integer and id2label maps the
\* integers back: the ids are exactly 0..n-1 for the n distinct class names, in
\* the sorted order of the names, and the two maps are inverses of each other.
C6_VideoLabelMaps ==
    pc = "labels" =>
        LET n == Cardinality(VideoClasses) IN
        /\ Keys(video_label2id) = VideoClasses
        /\ Len(video_label2id) = n /\ Len(video_id2label) = n
        /\ Values(video_label2id) = {PyInt(i) : i \in 0..(n - 1)}
        /\ Keys(video_id2label) = {PyInt(i) : i \in 0..(n - 1)}
        /\ \A c, d \in VideoClasses :
              StrLess(c, d) => Get(video_label2id, c).value < Get(video_label2id, d).value
        /\ \A c \in VideoClasses : Get(video_id2label, Get(video_label2id, c)) = c
        /\ \A i \in Keys(video_id2label) : Get(video_label2id, Get(video_id2label, i)) = i

\* Three videos of two classes, listed out of sorted order, one class in two
\* splits.
C6_Witness ==
    /\ pc = "labels"
    /\ Len(all_video_file_paths) = 3
    /\ Cardinality(VideoClasses) = 2
    /\ StrLess(Item(Split(all_video_file_paths[2], Slash), 2),
               Item(Split(all_video_file_paths[1], Slash), 2))

-----------------------------------------------------------------------------
(* 03_video_classification.ipynb, image classification: the label map cell *)

FoodLabelsInit ==
    /\ pc = "names"
    /\ DistilIdle /\ VideoLabelsIdle /\ SegLabelsIdle /\ CollateIdle /\ NotebookIdle /\ ReduceLabelsIdle /\ TransformsIdle /\ UnnormalizeIdle
    /\ food_labels \in FoodLabelLists
    /\ food_label2id = EmptyDict
    /\ food_id2label = EmptyDict

\* The cell: label2id, id2label = dict(), dict() and the loop over the labels
FillFoodLabels ==
    /\ pc = "names"
    /\ pc' = "labels"
    /\ LET filled == FoodLoop(Enumerate(food_labels), EmptyDict, EmptyDict)
       IN  /\ food_label2id' = filled.label2id
           /\ food_id2label' = filled.id2label
    /\ UNCHANGED <<food_labels, otherThanFoodLabels>>

FoodLabelsNext == FillFoodLabels

SpecFoodLabels == FoodLabelsInit /\ [][FoodLabelsNext]_vars

\* The decimal numeral of n, without leading zeros
IsNumeral(x, n) ==
    /\ x.type = "str"
    /\ Len(x.value) >= 1
    /\ \A j \in DOMAIN x.value : x.value[j] \in 48..57
    /\ (Len(x.value) > 1 => x.value[1] # 48)
    /\ Number(x.value) = n

-----------------------------------------------------------------------------
(* 02_image_segmentation.ipynb: the label map cell *)

SegLabelsInit ==
    /\ pc = "file"
    /\ DistilIdle /\ VideoLabelsIdle /\ FoodLabelsIdle /\ CollateIdle /\ NotebookIdle /\ ReduceLabelsIdle /\ TransformsIdle /\ UnnormalizeIdle
    /\ label_file \in LabelFiles
    /\ seg_id2label = EmptyDict
    /\ seg_label2id = EmptyDict
    /\ num_labels = 0

\* The cell: id2label with int keys, label2id from it, num_labels
LoadSegLabels ==
    /\ pc = "file"
    /\ pc' = "labels"
    /\ seg_id2label' = SegId2Label(label_file)
    /\ seg_label2id' = SegLabel2Id(SegId2Label(label_file))
    /\ num_labels' = Len(SegId2Label(label_file))
    /\ UNCHANGED <<label_file, otherThanSegLabels>>

SegLabelsNext == LoadSegLabels

SpecSegLabels == SegLabelsInit /\ [][SegLabelsNext]_vars

\* C8: id2label has integer keys, one for every id of the label file, label2id
\* is its inverse (label2id[id2label[k]] = k for every id k loaded from the
\* file), and num_labels = len(id2label) = len(label2id).
C8_SegLabelMaps ==
    pc = "labels" =>
        /\ Keys(seg_id2label) = {PyInt(Number(key.value)) : key \in Keys(label_file)}
        /\ \A k \in Keys(seg_id2label) : k.type = "int"
        /\ \A key \in Keys(label_file) :
              LET k == PyInt(Number(key.value)) IN
              /\ Get(seg_id2label, k) = Get(label_file, key)
              /\ Get(seg_label2id, Get(seg_id2label, k)) = k
        /\ \A name \in Keys(seg_label2id) :
              Get(seg_id2label, Get(seg_label2id, name)) = name
        /\ num_labels = Len(seg_id2label)
        /\ num_labels = Len(seg_label2id)

\* A file of three classes whose ids include a two-digit one
C8_Witness ==
    /\ pc = "labels"
    /\ num_labels = 3
    /\ PyInt(10) \in Keys(seg_id2label)
    /\ Get(seg_label2id, Get(seg_id2label, PyInt(10))) = PyInt(10)

-----------------------------------------------------------------------------
(* 03_video_classification.ipynb: a call of collate_fn *)

CollateInit ==
    /\ pc = "examples"
    /\ DistilIdle /\ VideoLabelsIdle /\ FoodLabelsIdle /\ SegLabelsIdle /\ NotebookIdle /\ ReduceLabelsIdle /\ TransformsIdle /\ UnnormalizeIdle
    /\ examples \in ExampleLists
    /\ batch = <<>>

\* The data loader calls collate_fn on the examples of a batch.
CollateFn ==
    /\ pc = "examples"
    /\ pc' = "batch"
    /\ batch' = collate_fn(examples)
    /\ UNCHANGED <<examples, otherThanCollate>>

CollateNext == CollateFn

SpecCollate == CollateInit /\ [][CollateNext]_vars

-----------------------------------------------------------------------------
(* A notebook run cell by cell from top to bottom in a fresh kernel *)

NotebookInit ==
    /\ pc = "cells"
    /\ DistilIdle /\ VideoLabelsIdle /\ FoodLabelsIdle /\ SegLabelsIdle /\ CollateIdle /\ ReduceLabelsIdle /\ TransformsIdle /\ UnnormalizeIdle
    /\ notebook \in Notebooks
    /\ cell = 1
    /\ bound = {}
    /\ ints = <<>>
    /\ raised = "none"
    /\ highest = 0
    /\ out_of_order = FALSE
    /\ used_unloaded = FALSE
    /\ used_untuned = FALSE
    /\ trained = FALSE
    /\ max_steps = -1
    /\ optimizer_steps = 0
    /\ num_videos \in TrainVideoCounts
    /\ checkpoint_saved \in BOOLEAN
    /\ kwargs_accepted \in BOOLEAN

\* The next cell runs; the kernel keeps what it bound, whether it raised or not.
RunCell ==
    /\ pc = "cells"
    /\ cell <= Len(Cells(notebook))
    /\ LET before == [bound |-> bound, ints |-> ints, raised |-> "none", highest |-> highest,
                      out_of_order |-> out_of_order, used_unloaded |-> used_unloaded,
                      used_untuned |-> used_untuned, trained |-> trained,
                      max_steps |-> max_steps, optimizer_steps |-> optimizer_steps]
           after == RunCellOn(Cells(notebook)[cell], before, num_videos, checkpoint_saved,
                              kwargs_accepted)
       IN  /\ bound' = after.bound
           /\ ints' = after.ints
           /\ raised' = after.raised
           /\ highest' = after.highest
           /\ out_of_order' = after.out_of_order
           /\ used_unloaded' = after.used_unloaded
           /\ used_untuned' = after.used_untuned
           /\ trained' = after.trained
           /\ max_steps' = after.max_steps
           /\ optimizer_steps' = after.optimizer_steps
    /\ cell' = cell + 1
    /\ pc' = IF cell = Len(Cells(notebook)) THEN "end" ELSE "cells"
    /\ UNCHANGED <<notebook, num_videos, checkpoint_saved, kwargs_accepted, otherThanNotebook>>

NotebookNext == RunCell

SpecNotebook == NotebookInit /\ [][NotebookNext]_vars

\* C5: each notebook, run cell by cell from top to bottom, follows the order
\* install, load a pretrained checkpoint, preprocess, inference or fine-tuning,
\* visualise; no cell runs inference or training on a model before the cell
\* that loads it, and no cell uses the fine-tuned model before train() was
\* called.
C5_NotebookOrder ==
    /\ ~out_of_order
    /\ ~used_unloaded
    /\ ~used_untuned

\* The cell of the video classification notebook that calls trainer.train()
TrainCell ==
    CHOOSE k \in DOMAIN VideoClassificationCells :
        \E j \in DOMAIN VideoClassificationCells[k].statements :
            VideoClassificationCells[k].statements[j].op = "train"

\* C10: training is bounded by max_steps = (train_dataset.num_videos //
\* batch_size) * num_epochs: once the cell that calls train() has run, the
\* fine-tuning run has ended after exactly that many optimizer steps.
C10_MaxSteps ==
    (notebook = "video_classification" /\ cell > TrainCell) =>
        /\ trained
        /\ {"batch_size", "num_epochs"} \subseteq DOMAIN ints
        /\ max_steps = MaxStepsOf(num_videos, ints)
        /\ optimizer_steps = max_steps

-----------------------------------------------------------------------------
(* 02_image_segmentation.ipynb: an annotation through the image processor,  *)
(* the loss of a training step and compute_metrics                          *)

ReduceLabelsInit ==
    /\ pc = "annotation"
    /\ DistilIdle /\ VideoLabelsIdle /\ FoodLabelsIdle /\ SegLabelsIdle /\ CollateIdle /\ NotebookIdle /\ TransformsIdle /\ UnnormalizeIdle
    /\ annotation \in Annotations
    /\ pred_labels \in Predictions
    /\ inputs_labels = <<>>
    /\ seg_loss = <<>>
    /\ metrics = <<>>

\* inputs = image_processor(images, labels)
ImageProcessor ==
    /\ pc = "annotation"
    /\ pc' = "inputs"
    /\ inputs_labels' = ProcessorLabels(annotation, do_reduce_labels)
    /\ UNCHANGED <<annotation, pred_labels, seg_loss, metrics, otherThanReduceLabels>>

\* The forward pass of a training step computes the loss on inputs["labels"].
ModelLoss ==
    /\ pc = "inputs"
    /\ pc' = "loss"
    /\ seg_loss' = CrossEntropyLoss(pred_labels, inputs_labels, semantic_loss_ignore_index)
    /\ UNCHANGED <<annotation, pred_labels, inputs_labels, metrics, otherThanReduceLabels>>

\* compute_metrics(eval_pred), the references being inputs["labels"]
ComputeMetrics ==
    /\ pc = "loss"
    /\ pc' = "metrics"
    /\ metrics' = MeanIoUAreas(pred_labels, inputs_labels, MaxClass, ignore_index, reduce_labels)
    /\ UNCHANGED <<annotation, pred_labels, inputs_labels, seg_loss, otherThanReduceLabels>>

ReduceLabelsNext == ImageProcessor \/ ModelLoss \/ ComputeMetrics

SpecReduceLabels == ReduceLabelsInit /\ [][ReduceLabelsNext]_vars

\* The pixels of the annotation that are not background
Foreground == {i \in DOMAIN annotation : annotation[i] # 0}

\* C11: with do_reduce_labels=True every annotation label is decreased by one
\* and the background label 0 becomes 255; the pixels labelled 255 are left out
\* of the loss and of compute_metrics, and compute_metrics does not reduce the
\* labels a second time: both count class c on the pixels annotated c + 1.
C11_ReduceLabels ==
    /\ pc # "annotation" =>
          \A i \in DOMAIN annotation :
              inputs_labels[i] = IF annotation[i] = 0 THEN 255 ELSE annotation[i] - 1
    /\ pc \in {"loss", "metrics"} =>
          /\ seg_loss.count = Cardinality(Foreground)
          /\ seg_loss.sum =
                 Cardinality({i \in Foreground : pred_labels[i] = annotation[i] - 1})
                 + 2 * Cardinality({i \in Foreground : pred_labels[i] # annotation[i] - 1})
    /\ pc = "metrics" =>
          \A c \in 0..(MaxClass - 1) :
              /\ metrics[c].area_label =
                     Cardinality({i \in DOMAIN annotation : annotation[i] = c + 1})
              /\ metrics[c].area_intersect =
                     Cardinality({i \in DOMAIN annotation :
                                     annotation[i] = c + 1 /\ pred_labels[i] = c})
              /\ metrics[c].area_pred_label =
                     Cardinality({i \in Foreground : pred_labels[i] = c})

\* An annotation with a background pixel, a pixel of class 1 and one of class
\* 2, the background pixel predicted as class 0
C11_Witness ==
    /\ pc = "metrics"
    /\ annotation = <<0, 1, 2>>
    /\ pred_labels[1] = 0
    /\ inputs_labels = <<255, 0, 1>>
    /\ seg_loss.count = 2
    /\ metrics[0].area_pred_label = 0

-----------------------------------------------------------------------------
(* 02_image_segmentation.ipynb: a batch through train_transforms or         *)
(* val_transforms                                                           *)

TransformsInit ==
    /\ pc = "batch"
    /\ DistilIdle /\ VideoLabelsIdle /\ FoodLabelsIdle /\ SegLabelsIdle /\ CollateIdle /\ NotebookIdle /\ ReduceLabelsIdle /\ UnnormalizeIdle
    /\ example_batch \in ExampleBatches
    /\ processor_images = <<>>
    /\ processor_labels = <<>>

\* train_ds.set_transform(train_transforms): the training set calls
\* train_transforms on a batch.
TrainTransforms ==
    /\ pc = "batch"
    /\ pc' = "train"
    /\ \E drawn \in [DOMAIN example_batch.image -> JitterSteps] :
          processor_images' = TrainImages(example_batch, drawn)
    /\ processor_labels' = TransformLabels(example_batch)
    /\ UNCHANGED <<example_batch, otherThanTransforms>>

\* test_ds.set_transform(val_transforms): the test set calls val_transforms on
\* a batch.
ValTransforms ==
    /\ pc = "batch"
    /\ pc' = "val"
    /\ processor_images' = ValImages(example_batch)
    /\ processor_labels' = TransformLabels(example_batch)
    /\ UNCHANGED <<example_batch, otherThanTransforms>>

TransformsNext == TrainTransforms \/ ValTransforms

SpecTransforms == TransformsInit /\ [][TransformsNext]_vars

\* C12: val_transforms passes every image of the batch unchanged to the image
\* processor; train_transforms changes the colours of the images only, each
\* image still the picture it was; in both the annotations reach the image
\* processor unchanged, annotation i with image i.
C12_Transforms ==
    /\ pc = "val" => processor_images = example_batch.image
    /\ pc \in {"train", "val"} =>
          /\ processor_labels = example_batch.annotation
          /\ DOMAIN processor_images = DOMAIN example_batch.image
          /\ \A i \in DOMAIN processor_images :
                /\ processor_images[i].scene = example_batch.image[i].scene
                /\ processor_labels[i].map_of = processor_images[i].scene

\* A training batch of two different pictures, the first one jittered, and a
\* test batch of two different pictures of different brightness
C12_Witness ==
    /\ Len(example_batch.image) = 2
    /\ example_batch.image[1].scene # example_batch.image[2].scene
    /\ \/ /\ pc = "train"
          /\ processor_images[1].brightness # example_batch.image[1].brightness
          /\ processor_images[2] = example_batch.image[2]
       \/ /\ pc = "val"
          /\ example_batch.image[1].brightness # example_batch.image[2].brightness


\* ---------------------------------------------------------------------------
\* Specification: a pixel through train_transform and unnormalize_img
\* ---------------------------------------------------------------------------
UnnormalizeInit ==
    /\ pc = "frame"
    /\ pixel \in 0..MaxPixel
    /\ channel \in 1..Channels
    /\ normalized = FloatOfInt(pixel)
    /\ frame_unnormalized = 0
    /\ DistilIdle /\ VideoLabelsIdle /\ FoodLabelsIdle /\ SegLabelsIdle /\ CollateIdle /\ NotebookIdle /\ ReduceLabelsIdle /\ TransformsIdle

ScalePixels ==
    /\ pc = "frame"
    /\ normalized' = Lambda(pixel)
    /\ pc' = "scaled"
    /\ UNCHANGED <<pixel, channel, frame_unnormalized, otherThanUnnormalize>>

NormalizePixels ==
    /\ pc = "scaled"
    /\ normalized' = Normalize(normalized, channel)
    /\ pc' = "normalized"
    /\ UNCHANGED <<pixel, channel, frame_unnormalized, otherThanUnnormalize>>

UnnormalizeImg ==
    /\ pc = "normalized"
    /\ frame_unnormalized' \in unnormalize_img(normalized, channel)
    /\ pc' = "unnormalized"
    /\ UNCHANGED <<pixel, channel, normalized, otherThanUnnormalize>>

UnnormalizeNext == ScalePixels \/ NormalizePixels \/ UnnormalizeImg

SpecUnnormalize == UnnormalizeInit /\ [][UnnormalizeNext]_vars

\* C13: for every original pixel value p in 0..255 preprocessed as
\* (p / 255 - mean) / std, unnormalize_img returns p.
C13_RoundTrip == pc = "unnormalized" => frame_unnormalized = pixel

=============================================================================
